---- MODULE Spec2Model ----
(***************************************************************************)
(* Model of the trading-bot worker of src/src/index.ts:                    *)
(*   - the TradingBotState Durable Object (per-day risk state),            *)
(*   - the process-wide master watchlist cache,                            *)
(*   - runBotOnce, the run procedure that composes them.                   *)
(*   - the filter loop of getOrBuildMasterWatchlist on its own,            *)
(*   - the per-symbol body of scanAndTrade_H3 (patterns, breakout, size).  *)
(*                                                                         *)
(* Numbers.  A JavaScript number is a record [k, v]: k = "num" carries the *)
(* integer v, k = "nan" is NaN, k = "null" is null, k = "undef" is         *)
(* undefined.  Equity and pnl are                                          *)
(* whole dollars.  A loss percentage is held in hundredths (3 is 0.03), so *)
(* startEquity * pct is in hundredths of a dollar and a dollar amount is   *)
(* multiplied by 100 before it is compared with it.                        *)
(***************************************************************************)
EXTENDS Integers, Sequences, FiniteSets, TLC

----------------------------------------------------------------------------
(* Bounds of the model *)

\* registerTradeResult stops counting losses past this many
MaxLosses == 3

\* the longest ticker snapshot the market-data provider returns
MaxTickers == 2

----------------------------------------------------------------------------
(* JavaScript values *)

Null == [k |-> "null", v |-> 0]
Undefined == [k |-> "undef", v |-> 0]
NaN == [k |-> "nan", v |-> 0]
Num(n) == [k |-> "num", v |-> n]

\* typeof x === "number": true of NaN too
TypeofNumber(x) == x.k \in {"num", "nan"}

Abs(n) == IF n < 0 THEN -n ELSE n

\* a - b
JsSub(a, b) == IF a.k = "num" /\ b.k = "num" THEN Num(a.v - b.v) ELSE NaN

\* a < 0 and a > 0; every comparison with NaN is false
JsNegative(a) == a.k = "num" /\ a.v < 0
JsPositive(a) == a.k = "num" /\ a.v > 0

\* A value of a request body: a JSON number, a string holding a number, the
\* empty string, a string that is no number, or null.
RawNum(n) == [t |-> "number", v |-> n]
RawNumStr(n) == [t |-> "numstr", v |-> n]
RawEmpty == [t |-> "empty", v |-> 0]
RawJunk == [t |-> "junk", v |-> 0]
RawNull == [t |-> "null", v |-> 0]

\* typeof raw === "number" ? raw : parseFloat(String(raw) || dflt)
\* String("") is falsy, so only the empty string takes the default;
\* String(null) is "null", which parseFloat turns into NaN.
ParseOr(raw, dflt) ==
  CASE raw.t = "number" -> Num(raw.v)
    [] raw.t = "numstr" -> Num(raw.v)
    [] raw.t = "empty" -> Num(dflt)
    [] OTHER -> NaN

ParseEquity(raw) == ParseOr(raw, 0)
\* the default "0.03", in hundredths
ParsePct(raw) == ParseOr(raw, 3)
ParsePnl(raw) == ParseOr(raw, 0)

----------------------------------------------------------------------------
(* The inputs the model draws from *)

NoDate == "<null>"
Dates == {"D1", "D2"}

RawEquities == {RawNum(0), RawNum(9600), RawNum(9999), RawNum(10000), RawJunk}
RawPcts == {RawNum(0), RawNum(3), RawEmpty}
RawPnls == {RawNum(-5), RawNum(-3), RawNum(-1), RawNum(0), RawNum(2), RawJunk}

----------------------------------------------------------------------------
(* TradingBotState: the Durable Object *)

\* this.data as the constructor sets it
InitData ==
  [date |-> NoDate, startEquity |-> Null, hitDailyMaxLoss |-> FALSE,
   consecutiveLosses |-> 0, dailyMaxLossPct |-> Null]

NoStore == [present |-> FALSE, val |-> InitData]
Stored(d) == [present |-> TRUE, val |-> d]

\* the object loadState builds from the stored one
FromStored(s) ==
  [date |-> s.date,
   startEquity |-> IF TypeofNumber(s.startEquity) THEN s.startEquity ELSE Null,
   hitDailyMaxLoss |-> s.hitDailyMaxLoss,
   consecutiveLosses |-> s.consecutiveLosses,
   dailyMaxLossPct |->
     IF TypeofNumber(s.dailyMaxLossPct) THEN s.dailyMaxLossPct ELSE Null]

\* this.data once loadState has returned
loadState(isLoaded, d, store) ==
  IF isLoaded THEN d
  ELSE IF store.present THEN FromStored(store.val) ELSE d

\* a mutant of NeedsReset: the date is not compared
NeedsReset_NoBaselineOnly(d, date) == d.startEquity = Null

\* this.data.date !== date || this.data.startEquity == null
NeedsReset(d, date) == d.date # date \/ d.startEquity = Null

\* a mutant of ResetOrKeep: the baseline follows the latest equity
ResetOrKeep_Overwrite(d, date, eq, pct) ==
  IF NeedsReset(d, date)
    THEN [date |-> date, startEquity |-> eq, hitDailyMaxLoss |-> FALSE,
          consecutiveLosses |-> 0, dailyMaxLossPct |-> pct]
    ELSE [d EXCEPT !.dailyMaxLossPct = pct, !.startEquity = eq]

\* the reset-or-keep step of getOrUpdate
ResetOrKeep(d, date, eq, pct) ==
  IF NeedsReset(d, date)
    THEN [date |-> date, startEquity |-> eq, hitDailyMaxLoss |-> FALSE,
          consecutiveLosses |-> 0, dailyMaxLossPct |-> pct]
    ELSE [d EXCEPT !.dailyMaxLossPct = pct]

\* a mutant of AtMaxLoss: < in place of <=
AtMaxLoss_Strict(pl, start, pct) ==
  /\ pl.k = "num" /\ start.k = "num" /\ pct.k = "num"
  /\ 100 * pl.v < -Abs(start.v * pct.v)

\* currentDayPL <= -Math.abs(startEquity * pct), pct in hundredths
AtMaxLoss(pl, start, pct) ==
  /\ pl.k = "num" /\ start.k = "num" /\ pct.k = "num"
  /\ 100 * pl.v <= -Abs(start.v * pct.v)

\* currentDayPL: eq - startEquity when both are numbers, else null
CurrentDayPL(d, eq) ==
  IF TypeofNumber(eq) /\ TypeofNumber(d.startEquity)
    THEN JsSub(eq, d.startEquity)
    ELSE Null

\* a mutant of TripMaxLoss: the flag is computed afresh on every call
TripMaxLoss_Recompute(d, pl, maxLossPct) ==
  LET usedPct == IF d.dailyMaxLossPct = Null THEN maxLossPct
                 ELSE d.dailyMaxLossPct
  IN [d EXCEPT !.hitDailyMaxLoss = AtMaxLoss(pl, d.startEquity, usedPct)]

\* the max-loss step of getOrUpdate: the flag is set, never cleared
TripMaxLoss(d, pl, maxLossPct) ==
  LET usedPct == IF d.dailyMaxLossPct = Null THEN maxLossPct
                 ELSE d.dailyMaxLossPct
  IN IF pl # Null /\ AtMaxLoss(pl, d.startEquity, usedPct)
       THEN [d EXCEPT !.hitDailyMaxLoss = TRUE]
       ELSE d

\* the body of handleGetOrUpdate after loadState: the new this.data and the
\* object returned
GetOrUpdate(d, date, eqRaw, pctRaw) ==
  LET eq == ParseEquity(eqRaw)
      maxLossPct == ParsePct(pctRaw)
      d1 == ResetOrKeep(d, date, eq, maxLossPct)
      currentDayPL == CurrentDayPL(d1, eq)
      d2 == TripMaxLoss(d1, currentDayPL, maxLossPct)
  IN [data |-> d2,
      resp |-> [date |-> d2.date, startEquity |-> d2.startEquity,
                currentDayPL |-> currentDayPL,
                hitDailyMaxLoss |-> d2.hitDailyMaxLoss,
                consecutiveLosses |-> d2.consecutiveLosses,
                dailyMaxLossPct |-> d2.dailyMaxLossPct]]

\* a mutant of NewDayCounters: the new day resets what getOrUpdate resets
NewDayCounters_ResetAll(d, date) ==
  IF d.date # date
    THEN [d EXCEPT !.date = date, !.consecutiveLosses = 0,
                   !.startEquity = Null, !.hitDailyMaxLoss = FALSE]
  ELSE d

\* the new-day step of registerTradeResult
NewDayCounters(d, date) ==
  IF d.date # date THEN [d EXCEPT !.date = date, !.consecutiveLosses = 0]
  ELSE d

\* a mutant of ApplyPnl: a flat trade ends the losing streak
ApplyPnl_ResetOnZero(losses, pnl) ==
  IF JsNegative(pnl) THEN losses + 1 ELSE 0

\* a mutant of ApplyPnl: a flat trade counts as a loss
ApplyPnl_CountZero(losses, pnl) ==
  IF JsPositive(pnl) THEN 0
  ELSE IF pnl.k = "num" THEN losses + 1
  ELSE losses

\* pnl < 0: one more loss; pnl > 0: none; otherwise unchanged
ApplyPnl(losses, pnl) ==
  IF JsNegative(pnl) THEN losses + 1
  ELSE IF JsPositive(pnl) THEN 0
  ELSE losses

\* the body of handleRegisterTradeResult after loadState; the object returned
\* has only date and consecutiveLosses, the other fields are fillers that
\* keep one shape for both responses
RegisterTradeResult(d, date, pnlRaw) ==
  LET d1 == NewDayCounters(d, date)
      d2 == [d1 EXCEPT
               !.consecutiveLosses = ApplyPnl(d1.consecutiveLosses,
                                              ParsePnl(pnlRaw))]
  IN [data |-> d2,
      resp |-> [date |-> d2.date, startEquity |-> Null, currentDayPL |-> Null,
                hitDailyMaxLoss |-> FALSE,
                consecutiveLosses |-> d2.consecutiveLosses,
                dailyMaxLossPct |-> Null]]

----------------------------------------------------------------------------
(* getOrBuildMasterWatchlist: the H2 filters *)

\* the defaults of the filter thresholds; REL_VOL_MIN is 1.5, held in tenths
PRICE_MIN == 5
PRICE_MAX == 200
PCT_CHANGE_MIN == 2
REL_VOL_MIN_TENTHS == 15
VOL_MIN == 500000
MAX_SCREEN == 100

DefaultFilters ==
  [PRICE_MIN |-> PRICE_MIN, PRICE_MAX |-> PRICE_MAX,
   PCT_CHANGE_MIN |-> PCT_CHANGE_MIN,
   REL_VOL_MIN_TENTHS |-> REL_VOL_MIN_TENTHS, VOL_MIN |-> VOL_MIN,
   MAX_SCREEN |-> MAX_SCREEN]

\* A ticker of the snapshot: day.c, todaysChangePerc, day.v and min.av, each
\* a number or missing (Null).
Symbols == {"AAA", "BBB"}

TickerUniverse ==
  { [ticker |-> "AAA", c |-> Num(10), pct |-> Num(3), v |-> Num(600000),
     av |-> Num(1000)],
    [ticker |-> "BBB", c |-> Num(50), pct |-> Num(-4), v |-> Num(900000),
     av |-> Num(2000)],
    [ticker |-> "CCC", c |-> Num(300), pct |-> Num(6), v |-> Num(700000),
     av |-> Num(1000)],
    [ticker |-> "DDD", c |-> Num(20), pct |-> Num(5), v |-> Num(800000),
     av |-> Null] }

RECURSIVE SeqsUpTo(_, _)
\* the sequences of distinct elements of S of length at most n
SeqsUpTo(S, n) ==
  IF n = 0 THEN {<<>>}
  ELSE LET shorter == SeqsUpTo(S, n - 1)
       IN shorter \cup
            UNION {{Append(q, x) :
                      x \in {y \in S : \A j \in DOMAIN q : q[j] # y}} :
                     q \in shorter}

Snapshots == SeqsUpTo(TickerUniverse, MaxTickers)

\* the four checks of one ticker
PassesFilters(t, cfg) ==
  LET relVolOk == /\ t.av.k = "num" /\ t.av.v > 0 /\ t.v.k = "num"
                  /\ ~(10 * t.v.v < cfg.REL_VOL_MIN_TENTHS * t.av.v)
  IN /\ t.c.k = "num" /\ ~(t.c.v < cfg.PRICE_MIN) /\ ~(t.c.v > cfg.PRICE_MAX)
     /\ t.pct.k = "num" /\ ~(Abs(t.pct.v) < cfg.PCT_CHANGE_MIN)
     /\ relVolOk
     /\ t.v.k = "num" /\ ~(t.v.v < cfg.VOL_MIN)

RECURSIVE ScreenFrom(_, _, _, _)
\* the loop over the tickers from index i on, with its break
ScreenFrom(tickers, i, passed, cfg) ==
  IF i > Len(tickers) THEN passed
  ELSE IF PassesFilters(tickers[i], cfg)
    THEN LET p == Append(passed, tickers[i].ticker)
         IN IF Len(p) >= cfg.MAX_SCREEN THEN p
            ELSE ScreenFrom(tickers, i + 1, p, cfg)
    ELSE ScreenFrom(tickers, i + 1, passed, cfg)

\* what a snapshot fetch can bring: an exception, a response that is not
\* ok, or the tickers
FetchOutcomes ==
  {[kind |-> "throw", tickers |-> <<>>], [kind |-> "http", tickers |-> <<>>]}
    \cup {[kind |-> "ok", tickers |-> t] : t \in Snapshots}

\* the list the builder caches for a fetch outcome
BuiltFrom(outcome, cfg) ==
  IF outcome.kind = "ok" THEN ScreenFrom(outcome.tickers, 1, <<>>, cfg)
  ELSE <<>>

----------------------------------------------------------------------------
(* runBotOnce *)

ENTRY_WINDOW_START == 9 * 60 + 24
ENTRY_WINDOW_END == 11 * 60

\* a mutant of TooEarly: 09:24 itself is too early
TooEarly_Inclusive(nyMinutes) == nyMinutes <= ENTRY_WINDOW_START

TooEarly(nyMinutes) == nyMinutes < ENTRY_WINDOW_START

\* a mutant of TooLate: 11:00 itself is too late
TooLate_Inclusive(nyMinutes) == nyMinutes >= ENTRY_WINDOW_END

TooLate(nyMinutes) == nyMinutes > ENTRY_WINDOW_END

\* a mutant of RiskGate: the force flag is read the wrong way round
RiskGate_ForcedOnly(riskState, force) == riskState.hitDailyMaxLoss /\ force

\* riskState.hitDailyMaxLoss && !force
RiskGate(riskState, force) == riskState.hitDailyMaxLoss /\ ~force

\* the minutes a run starts at, around both ends of the window
Minutes == {ENTRY_WINDOW_START - 1, ENTRY_WINDOW_START, ENTRY_WINDOW_END,
            ENTRY_WINDOW_END + 1}

\* what fetchAlpacaAccount can bring: nothing, or an account with its equity
AccountOutcomes ==
  {[ok |-> FALSE, equity |-> 0], [ok |-> TRUE, equity |-> 9600],
   [ok |-> TRUE, equity |-> 10000]}

\* the daily-max-loss percent getRiskState sends, in hundredths
DAILY_MAX_LOSS_PCT == 3

\* the request getRiskState sends to the Durable Object
RiskRequest(day, equity) ==
  [date |-> day, eqRaw |-> RawNum(equity), pctRaw |-> RawNum(DAILY_MAX_LOSS_PCT)]

\* a run that has not started
NoRun ==
  [pc |-> "idle", force |-> FALSE, minutes |-> 0, day |-> NoDate,
   ok |-> FALSE, reason |-> "", hasRisk |-> FALSE,
   riskState |-> GetOrUpdate(InitData, NoDate, RawNull, RawNull).resp,
   watchlist |-> <<>>, wlReturned |-> FALSE, equity |-> 0,
   positions |-> {}, idx |-> 0, scanned |-> 0, actions |-> <<>>,
   orders |-> <<>>, barFetches |-> <<>>, snapshotFetches |-> 0,
   accountFetches |-> 0, riskCalls |-> 0, positionsFetches |-> 0,
   hitAtStart |-> FALSE, prevBuilt |-> [valid |-> FALSE, day |-> NoDate,
                                        list |-> <<>>],
   lastTag |-> ""]

\* An environment variable: unset, or a string, held as the sequence of its
\* characters.
NoEnvVar == [set |-> FALSE, str |-> <<>>]
EnvStr(chars) == [set |-> TRUE, str |-> chars]

\* the lower-case letter of a character
LowerChar(c) ==
  CASE c = "A" -> "a" [] c = "E" -> "e" [] c = "F" -> "f" [] c = "L" -> "l"
    [] c = "R" -> "r" [] c = "S" -> "s" [] c = "T" -> "t" [] c = "U" -> "u"
    [] OTHER -> c

\* String.prototype.toLowerCase
ToLowerCase(str) == [i \in 1..Len(str) |-> LowerChar(str[i])]

\* a mutant of DryRun: the letter case is not folded
DryRun_CaseSensitive(raw) ==
  (IF raw.set THEN raw.str ELSE <<"t", "r", "u", "e">>)
    = <<"t", "r", "u", "e">>

\* (env.DRY_RUN ?? "true").toLowerCase() === "true"
DryRun(raw) ==
  ToLowerCase(IF raw.set THEN raw.str ELSE <<"t", "r", "u", "e">>)
    = <<"t", "r", "u", "e">>

\* the values of env.DRY_RUN tried: unset, "TrUe", "false"
DryRunValues ==
  {NoEnvVar, EnvStr(<<"T", "r", "U", "e">>),
   EnvStr(<<"f", "a", "l", "s", "e">>)}

----------------------------------------------------------------------------
(* scanAndTrade_H3: what one symbol's bars lead to.

   Prices are whole dollars held in cents, so that 1% of a price is a whole
   number of cents; equity is in dollars and riskPct in hundredths (1 is
   0.01), so that equity * riskPct is in cents as well.  A bar is a record
   [o, h, l, c, v]; its low is a JavaScript value, because a bar of the
   provider may come without one. *)

\* a * b
JsMul(a, b) == IF a.k = "num" /\ b.k = "num" THEN Num(a.v * b.v) ELSE NaN

\* a < b and a > b on JavaScript values; undefined compares as NaN
JsLt(a, b) == a.k = "num" /\ b.k = "num" /\ a.v < b.v
JsGt(a, b) == a.k = "num" /\ b.k = "num" /\ a.v > b.v

\* bars.length < 30 skips the symbol; the ABCD lookback is 30 bars too
MIN_BARS == 30
LOOKBACK == 30

\* close > open, close < open
isGreen(bar) == bar.c > bar.o
isRed(bar) == bar.c < bar.o

\* startIdx = Math.max(0, bars.length - lookback), as an index from 1
StartIdx(bars) ==
  IF Len(bars) - LOOKBACK < 0 THEN 1 ELSE Len(bars) - LOOKBACK + 1

\* the open of the first bar of the lookback window
getSessionOpenPrice(bars) == bars[StartIdx(bars)].o

RECURSIVE HighestFrom(_, _, _)
\* the loop that looks for point B from index i on: the first bar with the
\* highest high, its index kept in bIdx
HighestFrom(bars, i, bIdx) ==
  IF i > Len(bars) THEN bIdx
  ELSE IF bars[i].h > bars[bIdx].h THEN HighestFrom(bars, i + 1, i)
  ELSE HighestFrom(bars, i + 1, bIdx)

RECURSIVE LowestFrom(_, _, _)
\* the loop that looks for point C from index i on
LowestFrom(bars, i, lowest) ==
  IF i > Len(bars) THEN lowest
  ELSE IF JsLt(bars[i].l, lowest) THEN LowestFrom(bars, i + 1, bars[i].l)
  ELSE LowestFrom(bars, i + 1, lowest)

\* Pattern B: isABCDSetup, entryTriggerABCD and pointCPrice
AbcdCheck(bars) ==
  LET n == Len(bars)
      current == bars[n]
      bIdx == HighestFrom(bars, StartIdx(bars) + 1, StartIdx(bars))
      pointBPrice == bars[bIdx].h
  IN IF bIdx < n
       THEN LET pointCPrice == LowestFrom(bars, bIdx + 2, bars[bIdx + 1].l)
                isHigherLow ==
                  JsGt(pointCPrice, Num(getSessionOpenPrice(bars)))
                isCurlingUp == /\ JsGt(Num(current.c), pointCPrice)
                               /\ current.c < pointBPrice
            IN [isABCDSetup |-> isHigherLow /\ isCurlingUp,
                hasTrigger |-> TRUE, entryTriggerABCD |-> pointBPrice,
                pointCPrice |-> pointCPrice]
       ELSE [isABCDSetup |-> FALSE, hasTrigger |-> FALSE,
             entryTriggerABCD |-> 0, pointCPrice |-> Null]

\* a mutant of ChoosePattern: ABCD is looked at first
ChoosePattern_AbcdFirst(isPullback, entryTriggerPullback, abcd) ==
  IF abcd.isABCDSetup /\ abcd.hasTrigger
    THEN [pattern |-> "ABCD", triggerPrice |-> abcd.entryTriggerABCD]
  ELSE IF isPullback
    THEN [pattern |-> "PULLBACK", triggerPrice |-> entryTriggerPullback]
  ELSE [pattern |-> "none", triggerPrice |-> 0]

\* "Choose pattern & trigger"
ChoosePattern(isPullback, entryTriggerPullback, abcd) ==
  IF isPullback
    THEN [pattern |-> "PULLBACK", triggerPrice |-> entryTriggerPullback]
  ELSE IF abcd.isABCDSetup /\ abcd.hasTrigger
    THEN [pattern |-> "ABCD", triggerPrice |-> abcd.entryTriggerABCD]
  ELSE [pattern |-> "none", triggerPrice |-> 0]

\* a mutant of Breakout: the price is not looked at
Breakout_VolumeOnly(current, last, triggerPrice) == current.v > last.v

\* priceNow >= triggerPrice && isHighVolume
Breakout(current, last, triggerPrice) ==
  current.c >= triggerPrice /\ current.v > last.v

\* riskPerShare, with its fallback to priceNow * 0.01
RiskPerShare(pattern, triggerPrice, last, pointCPrice, priceNow) ==
  LET first ==
        IF pattern = "PULLBACK" THEN JsSub(Num(triggerPrice), last.l)
        ELSE IF pattern = "ABCD" /\ pointCPrice \notin {Null, Undefined}
          THEN JsSub(Num(triggerPrice), pointCPrice)
        ELSE Num(priceNow \div 100)
  IN IF first.k # "num" \/ first.v <= 0 THEN Num(priceNow \div 100)
     ELSE first

\* Math.floor(riskDollars / riskPerShare); a division by 0 gives no finite
\* number
Shares(riskDollars, riskPerShare) ==
  IF riskDollars.k = "num" /\ riskPerShare.k = "num" /\ riskPerShare.v # 0
    THEN IF riskPerShare.v > 0
           THEN Num(riskDollars.v \div riskPerShare.v)
           ELSE Num((-riskDollars.v) \div (-riskPerShare.v))
    ELSE NaN

\* a mutant of SharesOk: a size of 0 is let through
SharesOk_ZeroAllowed(shares) == shares.k = "num" /\ shares.v >= 0

\* isFinite(shares) && shares > 0
SharesOk(shares) == shares.k = "num" /\ shares.v > 0

\* what the loop body found for a symbol that had no entry
NoEntry(tag) ==
  [tag |-> tag, isPullback |-> FALSE, isABCDSetup |-> FALSE,
   pattern |-> "none", triggerPrice |-> 0, pointBPrice |-> 0,
   priceNow |-> 0, shares |-> NaN, riskDollars |-> NaN, riskPerShare |-> NaN]

\* The loop body of scanAndTrade_H3 from the bars on.  fetched is what
\* fetch1MinBars returned (null when not ok), macd what calculateMACD
\* returned (null when not ok), equity is parseFloat(String(account.equity
\* ?? "0")) and riskPct is parseFloat(env.RISK_PCT_PER_TRADE ?? "0.01").
EvalSymbol(fetched, macd, equity, riskPct) ==
  IF ~fetched.ok THEN NoEntry("no-bars")
  ELSE IF Len(fetched.bars) < MIN_BARS THEN NoEntry("few-bars")
  ELSE IF ~macd.ok THEN NoEntry("no-macd")
  ELSE IF ~(macd.line > macd.signal) THEN NoEntry("macd-not-positive")
  ELSE
    LET bars == fetched.bars
        current == bars[Len(bars)]
        last == bars[Len(bars) - 1]
        prev == bars[Len(bars) - 2]
        isPullback == isGreen(prev) /\ isRed(last)
        abcd == AbcdCheck(bars)
        chosen == ChoosePattern(isPullback, last.h, abcd)
        found == [NoEntry("no-setup") EXCEPT
                    !.isPullback = isPullback,
                    !.isABCDSetup = abcd.isABCDSetup,
                    !.pattern = chosen.pattern,
                    !.triggerPrice = chosen.triggerPrice,
                    !.pointBPrice = abcd.entryTriggerABCD,
                    !.priceNow = current.c]
    IN IF ~(chosen.pattern # "none" /\ chosen.triggerPrice > 0) THEN found
       ELSE IF ~Breakout(current, last, chosen.triggerPrice)
         THEN [found EXCEPT !.tag = "no-breakout"]
       ELSE
         LET riskDollars == JsMul(equity, riskPct)
             riskPerShare ==
               RiskPerShare(chosen.pattern, chosen.triggerPrice, last,
                            abcd.pointCPrice, current.c)
             shares == Shares(riskDollars, riskPerShare)
             sized == [found EXCEPT !.riskDollars = riskDollars,
                                    !.riskPerShare = riskPerShare,
                                    !.shares = shares]
         IN IF ~SharesOk(shares) THEN [sized EXCEPT !.tag = "no-size"]
            ELSE [sized EXCEPT !.tag = "entry"]

\* the object pushed on actions
ActionOf(symbol, e) ==
  [symbol |-> symbol, pattern |-> e.pattern, priceNow |-> e.priceNow,
   triggerPrice |-> e.triggerPrice, shares |-> e.shares.v,
   riskDollars |-> e.riskDollars.v, riskPerShare |-> e.riskPerShare.v]

----------------------------------------------------------------------------
(* The bars the model draws from *)

\* the longest bar sequence fetch1MinBars returns
MaxBars == 31

Bar(o, h, l, c, v) == [o |-> o, h |-> h, l |-> l, c |-> c, v |-> v]

\* the bars before the last three: quiet bars at 9 dollars, then one bar
\* with a high of 13 dollars at index spikeAt (none when spikeAt = 0), then
\* quiet bars at 11 dollars
LowBar == Bar(900, 900, Num(900), 900, 100)
SpikeBar == Bar(1100, 1300, Num(1100), 1100, 100)
HighBar == Bar(1100, 1100, Num(1100), 1100, 100)

Lead(n, spikeAt) ==
  [i \in 1..n |-> IF i < spikeAt THEN LowBar
                  ELSE IF i = spikeAt THEN SpikeBar
                  ELSE HighBar]

\* the shapes of prev, last and current: a green bar, a red bar, a red bar
\* without a low, a green bar on twice the volume, a green bar that closes
\* at 14 dollars on twice the volume, and a flat bar
GreenBar == Bar(1000, 1200, Num(1000), 1100, 100)
RedBar == Bar(1100, 1200, Num(1000), 1000, 100)
RedBarNoLow == Bar(1100, 1100, Undefined, 1000, 100)
UpBar == Bar(1100, 1300, Num(1100), 1200, 200)
TopBar == Bar(1200, 1400, Num(1200), 1400, 200)
FlatBar == Bar(1000, 1000, Num(1000), 1000, 100)

TailBars == {GreenBar, RedBar, RedBarNoLow, UpBar, TopBar, FlatBar}

\* no answer from the provider, and an answer with bars
NoBars == [ok |-> FALSE, bars |-> <<>>]
Fetched(bars) == [ok |-> TRUE, bars |-> bars]

\* one bar short of MIN_BARS
ShortBars == Lead(MIN_BARS - 1, 0)

\* a green bar, a red bar, and a close at the red bar's high on rising
\* volume
PullbackBreakoutBars == Lead(MIN_BARS - 3, 0) \o <<GreenBar, RedBar, UpBar>>

\* what calculateMACD returns: null, line above signal, line not above
\* signal
NoMacd == [ok |-> FALSE, line |-> 0, signal |-> 0]
MacdPositive == [ok |-> TRUE, line |-> 1, signal |-> 0]
MacdNotPositive == [ok |-> TRUE, line |-> 0, signal |-> 0]
MacdOutcomes == {NoMacd, MacdPositive, MacdNotPositive}

\* parseFloat(env.RISK_PCT_PER_TRADE ?? "0.01") with the variable unset, in
\* hundredths
RISK_PCT_DEFAULT == 1

----------------------------------------------------------------------------
(* State *)

VARIABLES
  data,        \* TradingBotState: this.data
  loaded,      \* TradingBotState: this.loaded
  storage,     \* the Durable Object's stored "botState"
  last,        \* the last request the Durable Object served, with its response
  stretch,     \* history: the current stretch of calls that carry one date
  seen,        \* history: per date, what its getOrUpdate calls have returned
  regRun,      \* history: the pnls so far, while only registerTradeResult
               \* calls with one date have been made
  reqs,        \* overlapping requests: where each stands in its handler
  start0,      \* overlapping requests: the object before the first began
  MASTER_WATCHLIST,      \* the cached watchlist
  MASTER_WATCHLIST_DAY,  \* the day it was built for
  env,         \* the worker's environment bindings
  today,       \* the New York day of the wall clock
  run,         \* the run of runBotOnce in progress, or the last one
  built,       \* history: the last getOrBuildMasterWatchlist call that returned
  screened,    \* the filter loop of getOrBuildMasterWatchlist on its own:
               \* its tickers, its thresholds and the list it leaves
  signal       \* the loop body of scanAndTrade_H3 on its own: what was
               \* fetched for one symbol and what the body found

doVars == <<data, loaded, storage>>
histVars == <<last, stretch, seen, regRun>>
concVars == <<reqs, start0>>
cacheVars == <<MASTER_WATCHLIST, MASTER_WATCHLIST_DAY>>
runVars == <<cacheVars, env, today, run, built>>
fnVars == <<screened, signal>>
vars == <<doVars, histVars, concVars, runVars, fnVars>>

Unset == [k |-> "unset", v |-> 0]

NoCall ==
  [op |-> "none", date |-> NoDate, eqRaw |-> RawNull, pctRaw |-> RawNull,
   pnlRaw |-> RawNull, pre |-> InitData,
   resp |-> GetOrUpdate(InitData, NoDate, RawNull, RawNull).resp,
   hitBefore |-> FALSE, everHitBefore |-> FALSE]

NoSeen == [d \in Dates |-> [start |-> Unset, hit |-> FALSE]]

Reqs == {1, 2}

\* a request that has not arrived
NoReq ==
  [pc |-> "idle", op |-> "none", date |-> NoDate, eqRaw |-> RawNull,
   pctRaw |-> RawNull, pnlRaw |-> RawNull, got |-> NoStore, pl |-> Null,
   resp |-> NoCall.resp]

InitHist ==
  /\ last = NoCall
  /\ stretch = [date |-> NoDate, start |-> Unset, hit |-> FALSE]
  /\ seen = NoSeen
  /\ regRun = [valid |-> TRUE, date |-> NoDate, pnls |-> <<>>]

\* the filter loop not entered
NoScreen ==
  [pc |-> "idle", tickers |-> <<>>, cfg |-> DefaultFilters, passed |-> <<>>]

\* the loop body not entered
NoSignal ==
  [pc |-> "idle", fetched |-> [ok |-> FALSE, bars |-> <<>>],
   macd |-> [ok |-> FALSE, line |-> 0, signal |-> 0], equity |-> NaN,
   riskPct |-> NaN, found |-> NoEntry("")]

InitFnIdle ==
  /\ screened = NoScreen
  /\ signal = NoSignal

InitConcIdle ==
  /\ reqs = [i \in Reqs |-> NoReq]
  /\ start0 = [data |-> InitData, loaded |-> FALSE, storage |-> NoStore]

\* the worker before its first run, with the default environment
InitRunIdle ==
  /\ MASTER_WATCHLIST = <<>>
  /\ MASTER_WATCHLIST_DAY = NoDate
  /\ env = [MASSIVE_API_KEY |-> TRUE, DRY_RUN |-> NoEnvVar,
            filters |-> DefaultFilters]
  /\ today = "D1"
  /\ run = NoRun
  /\ built = NoRun.prevBuilt

InitStore ==
  /\ data = InitData
  /\ loaded = FALSE
  /\ storage = NoStore
  /\ InitHist
  /\ InitConcIdle
  /\ InitRunIdle
  /\ InitFnIdle

\* the longest run of registerTradeResult calls the history keeps
MaxRun == 4

\* the history after a getOrUpdate(date) that returned resp
StretchAfterGet(date, resp) ==
  IF stretch.date = date
    THEN [stretch EXCEPT
            !.start = IF @ = Unset THEN resp.startEquity ELSE @,
            !.hit = @ \/ resp.hitDailyMaxLoss]
    ELSE [date |-> date, start |-> resp.startEquity,
          hit |-> resp.hitDailyMaxLoss]

StretchAfterRegister(date) ==
  IF stretch.date = date THEN stretch
  ELSE [date |-> date, start |-> Unset, hit |-> FALSE]

SeenAfterGet(date, resp) ==
  [seen EXCEPT ![date].start = IF @ = Unset THEN resp.startEquity ELSE @,
               ![date].hit = @ \/ resp.hitDailyMaxLoss]

\* One getOrUpdate request served: fetch with action "getOrUpdate", then
\* handleGetOrUpdate (loadState, the update, saveState, the response).
\* perDay says whether the per-date history is kept.
ServeGetOrUpdate(date, eqRaw, pctRaw, perDay) ==
  \E pre \in {loadState(loaded, data, storage)} :
  \E r \in {GetOrUpdate(pre, date, eqRaw, pctRaw)} :
     /\ data' = r.data
     /\ loaded' = TRUE
     /\ storage' = Stored(r.data)
     /\ last' = [op |-> "getOrUpdate", date |-> date, eqRaw |-> eqRaw,
                 pctRaw |-> pctRaw, pnlRaw |-> RawNull, pre |-> pre,
                 resp |-> r.resp,
                 hitBefore |-> stretch.date = date /\ stretch.hit,
                 everHitBefore |-> seen[date].hit]
     /\ stretch' = StretchAfterGet(date, r.resp)
     /\ seen' = IF perDay THEN SeenAfterGet(date, r.resp) ELSE seen
     /\ regRun' = [valid |-> FALSE, date |-> NoDate, pnls |-> <<>>]

\* a getOrUpdate request from any client
GetOrUpdateCall(eqs, pcts, perDay) ==
  \E date \in Dates, eqRaw \in eqs, pctRaw \in pcts :
    /\ ServeGetOrUpdate(date, eqRaw, pctRaw, perDay)
    /\ UNCHANGED <<concVars, runVars, fnVars>>

\* A registerTradeResult request: fetch with action "registerTradeResult",
\* then handleRegisterTradeResult.
RegisterCall(pnls) ==
  \E date \in Dates, pnlRaw \in pnls :
    \E pre \in {loadState(loaded, data, storage)} :
    \E r \in {RegisterTradeResult(pre, date, pnlRaw)} :
       /\ r.data.consecutiveLosses <= MaxLosses
       /\ data' = r.data
       /\ loaded' = TRUE
       /\ storage' = Stored(r.data)
       /\ last' = [op |-> "registerTradeResult", date |-> date,
                   eqRaw |-> RawNull, pctRaw |-> RawNull, pnlRaw |-> pnlRaw,
                   pre |-> pre, resp |-> r.resp,
                   hitBefore |-> FALSE, everHitBefore |-> FALSE]
       /\ stretch' = StretchAfterRegister(date)
       /\ seen' = seen
       /\ regRun' =
            IF /\ regRun.valid
               /\ regRun.date \in {NoDate, date}
               /\ Len(regRun.pnls) < MaxRun
              THEN [valid |-> TRUE, date |-> date,
                    pnls |-> Append(regRun.pnls, ParsePnl(pnlRaw))]
              ELSE [valid |-> FALSE, date |-> NoDate, pnls |-> <<>>]
       /\ UNCHANGED <<concVars, runVars, fnVars>>

HandleGetOrUpdate == GetOrUpdateCall(RawEquities, RawPcts, FALSE)
HandleRegisterTradeResult == RegisterCall(RawPnls)

\* the runtime discards the object from memory; the next request constructs
\* it again and loads "botState"
Evict ==
  /\ loaded
  /\ data' = InitData
  /\ loaded' = FALSE
  /\ UNCHANGED <<storage, histVars, concVars, runVars, fnVars>>

Init == InitStore

Next ==
  \/ HandleGetOrUpdate
  \/ HandleRegisterTradeResult
  \/ Evict

\* The Durable Object serving one request after another.
Spec == Init /\ [][Next]_vars

----------------------------------------------------------------------------
(* The same object with the per-date history kept *)

DayEquities == {RawNum(9600), RawNum(9999), RawNum(10000)}
DayPcts == {RawNum(0), RawNum(3)}
DayPnls == {RawNum(0)}

DayGetOrUpdate == GetOrUpdateCall(DayEquities, DayPcts, TRUE)
DayRegisterTradeResult == RegisterCall(DayPnls)

NextDays ==
  \/ DayGetOrUpdate
  \/ DayRegisterTradeResult
  \/ Evict

SpecDays == Init /\ [][NextDays]_vars

----------------------------------------------------------------------------
(* C1 *)

\* C1 as stated: once a getOrUpdate for a day D has set startEquity, every
\* later getOrUpdate for D returns that startEquity, whatever calls with
\* whatever dates come in between.
C1_StartEquityOncePerDay ==
  last.op = "getOrUpdate" => last.resp.startEquity = seen[last.date].start

\* C1 as amended: every getOrUpdate for D returns the startEquity that the
\* first getOrUpdate for D returned in the current stretch of calls carrying
\* D, that is, as long as no call with another date has come in between.
C1_StartEquityKeptWithinStretch ==
  last.op = "getOrUpdate" => last.resp.startEquity = stretch.start

\* a later getOrUpdate of the stretch, with another equity than the baseline
C1_Witness ==
  /\ last.op = "getOrUpdate"
  /\ last.pre.date = last.date
  /\ last.pre.startEquity = Num(10000)
  /\ last.eqRaw = RawNum(9600)
  /\ last.resp.startEquity = Num(10000)

----------------------------------------------------------------------------
(* C2 *)

\* C2 as stated: once a getOrUpdate for D has returned hitDailyMaxLoss =
\* true, every later getOrUpdate for D returns true, whatever calls come in
\* between.
C2_HitMonotonicPerDay ==
  (last.op = "getOrUpdate" /\ last.everHitBefore)
    => last.resp.hitDailyMaxLoss

\* C2 as amended: once a getOrUpdate for D has returned hitDailyMaxLoss =
\* true, every later getOrUpdate for D returns true as long as no call with
\* another date has come in between.
C2_HitStickyWithinStretch ==
  (last.op = "getOrUpdate" /\ last.hitBefore) => last.resp.hitDailyMaxLoss

\* equity back at 9999 of 10000, after the flag was set at 3%
C2_Witness ==
  /\ last.op = "getOrUpdate"
  /\ last.hitBefore
  /\ last.pctRaw = RawNum(3)
  /\ last.resp.startEquity = Num(10000)
  /\ last.resp.currentDayPL = Num(-1)
  /\ last.resp.hitDailyMaxLoss

----------------------------------------------------------------------------
(* Two requests to one object, interleaved at the awaits of loadState and
   saveState.  The handlers take no lock; the code between two awaits runs
   without interruption. *)

\* the object when the requests arrive: new; or with a record stored, in
\* memory or not (evicted since).  The record is the one left by
\* getOrUpdate(D1, 10000, 3%) and registerTradeResult(D1, -5).
WarmData ==
  [date |-> "D1", startEquity |-> Num(10000), hitDailyMaxLoss |-> FALSE,
   consecutiveLosses |-> 1, dailyMaxLossPct |-> Num(3)]

ConcStarts ==
  { [data |-> InitData, loaded |-> FALSE, storage |-> NoStore],
    [data |-> WarmData, loaded |-> TRUE, storage |-> Stored(WarmData)],
    [data |-> InitData, loaded |-> FALSE, storage |-> Stored(WarmData)] }

ConcEquities == {RawNum(9600), RawNum(10000)}
ConcPcts == {RawNum(3)}
ConcPnls == {RawNum(-5), RawNum(2)}

InitConc ==
  /\ start0 \in ConcStarts
  /\ data = start0.data
  /\ loaded = start0.loaded
  /\ storage = start0.storage
  /\ InitHist
  /\ reqs = [i \in Reqs |-> NoReq]
  /\ InitRunIdle
  /\ InitFnIdle

\* loadState up to its await: it returns at once when loaded, else it has
\* called storage.get
EnterLoadState(q) ==
  IF loaded THEN [q EXCEPT !.pc = "loaded"]
  ELSE [q EXCEPT !.pc = "getting", !.got = storage]

\* the request arrives and its handler runs to the await in loadState
Begin(i) ==
  /\ reqs[i].pc = "idle"
  /\ \/ \E date \in Dates, eqRaw \in ConcEquities, pctRaw \in ConcPcts :
          reqs' = [reqs EXCEPT ![i] =
                     EnterLoadState([NoReq EXCEPT !.op = "getOrUpdate",
                                       !.date = date, !.eqRaw = eqRaw,
                                       !.pctRaw = pctRaw])]
     \/ \E date \in Dates, pnlRaw \in ConcPnls :
          reqs' = [reqs EXCEPT ![i] =
                     EnterLoadState([NoReq EXCEPT !.op = "registerTradeResult",
                                       !.date = date, !.pnlRaw = pnlRaw])]
  /\ UNCHANGED <<doVars, histVars, start0, runVars, fnVars>>

\* storage.get resolves: loadState assigns this.data and this.loaded
GetDone(i) ==
  /\ reqs[i].pc = "getting"
  /\ data' = loadState(FALSE, data, reqs[i].got)
  /\ loaded' = TRUE
  /\ reqs' = [reqs EXCEPT ![i].pc = "loaded"]
  /\ UNCHANGED <<storage, histVars, start0, runVars, fnVars>>

\* the handler resumes after loadState: it updates this.data and calls
\* saveState, which hands this.data to storage.put
Mutate(i) ==
  /\ reqs[i].pc = "loaded"
  /\ LET q == reqs[i]
         r == IF q.op = "getOrUpdate"
                THEN GetOrUpdate(data, q.date, q.eqRaw, q.pctRaw)
                ELSE RegisterTradeResult(data, q.date, q.pnlRaw)
     IN /\ data' = r.data
        /\ storage' = Stored(r.data)
        /\ reqs' = [reqs EXCEPT ![i].pc = "putting",
                                ![i].pl = r.resp.currentDayPL]
  /\ UNCHANGED <<loaded, histVars, start0, runVars, fnVars>>

\* the object a handler returns, read from this.data when saveState has
\* returned
ResponseOf(q, d) ==
  IF q.op = "getOrUpdate"
    THEN [date |-> d.date, startEquity |-> d.startEquity,
          currentDayPL |-> q.pl, hitDailyMaxLoss |-> d.hitDailyMaxLoss,
          consecutiveLosses |-> d.consecutiveLosses,
          dailyMaxLossPct |-> d.dailyMaxLossPct]
    ELSE [date |-> d.date, startEquity |-> Null, currentDayPL |-> Null,
          hitDailyMaxLoss |-> FALSE,
          consecutiveLosses |-> d.consecutiveLosses,
          dailyMaxLossPct |-> Null]

\* storage.put resolves: the handler builds its response
Finish(i) ==
  /\ reqs[i].pc = "putting"
  /\ reqs' = [reqs EXCEPT ![i].pc = "done",
                          ![i].resp = ResponseOf(reqs[i], data)]
  /\ UNCHANGED <<doVars, histVars, start0, runVars, fnVars>>

ReqBegin == \E i \in Reqs : Begin(i)
ReqGetDone == \E i \in Reqs : GetDone(i)
ReqMutate == \E i \in Reqs : Mutate(i)
ReqFinish == \E i \in Reqs : Finish(i)

NextConc ==
  \/ ReqBegin
  \/ ReqGetDone
  \/ ReqMutate
  \/ ReqFinish

SpecConc == InitConc /\ [][NextConc]_vars

\* request q served alone, start to end, by the object in state st
ServeAlone(st, q) ==
  LET pre == loadState(st.loaded, st.data, st.storage)
      r == IF q.op = "getOrUpdate"
             THEN GetOrUpdate(pre, q.date, q.eqRaw, q.pctRaw)
             ELSE RegisterTradeResult(pre, q.date, q.pnlRaw)
  IN [st |-> [data |-> r.data, loaded |-> TRUE, storage |-> Stored(r.data)],
      resp |-> r.resp]

\* the responses and the final state when request a is served, then b
SerialOutcome(a, b) ==
  LET first == ServeAlone(start0, reqs[a])
      second == ServeAlone(first.st, reqs[b])
  IN [resp |-> [i \in Reqs |-> IF i = a THEN first.resp ELSE second.resp],
      data |-> second.st.data,
      storage |-> second.st.storage]

----------------------------------------------------------------------------
(* C3 *)

\* C3: when two overlapping requests for the same date have both been
\* answered, the two responses, this.data and the stored record are those of
\* one of the two serial orders of the calls.
C3_Linearizable ==
  (/\ \A i \in Reqs : reqs[i].pc = "done"
   /\ reqs[1].date = reqs[2].date) =>
    [resp |-> [i \in Reqs |-> reqs[i].resp], data |-> data,
     storage |-> storage]
      \in {SerialOutcome(1, 2), SerialOutcome(2, 1)}

----------------------------------------------------------------------------
(* C4 *)

\* C4: every getOrUpdate returns currentDayPL = equity - startEquity, with
\* startEquity the value stored after the reset-or-keep step, and returns
\* hitDailyMaxLoss = true whenever currentDayPL <= -|startEquity * pct| with
\* the pct of that call.
C4_DayPLAndMaxLoss ==
  last.op = "getOrUpdate" =>
    LET eq == ParseEquity(last.eqRaw)
        pct == ParsePct(last.pctRaw)
        start == last.resp.startEquity
        cur == loadState(loaded, data, storage)
    IN /\ start = cur.startEquity
       /\ (eq.k = "num" /\ start.k = "num")
            => last.resp.currentDayPL = Num(eq.v - start.v)
       /\ (eq.k = "nan" \/ start.k = "nan") => last.resp.currentDayPL = NaN
       /\ (/\ eq.k = "num" /\ start.k = "num" /\ pct.k = "num"
           /\ 100 * (eq.v - start.v) <= -Abs(start.v * pct.v))
            => last.resp.hitDailyMaxLoss

\* getOrUpdate(D, 10000, 3%) then getOrUpdate(D, 9600, 3%)
C4_Witness ==
  /\ last.op = "getOrUpdate"
  /\ last.pre.date = last.date
  /\ last.pre.startEquity = Num(10000)
  /\ ~last.pre.hitDailyMaxLoss
  /\ last.eqRaw = RawNum(9600)
  /\ last.pctRaw = RawNum(3)
  /\ last.resp.currentDayPL = Num(-400)
  /\ last.resp.hitDailyMaxLoss

----------------------------------------------------------------------------
(* C5 *)

\* C5 as stated: a getOrUpdate whose date differs from the stored date
\* returns startEquity = the supplied equity, hitDailyMaxLoss = false and
\* consecutiveLosses = 0, for every equity and pct.
C5_NewDateResets ==
  (last.op = "getOrUpdate" /\ last.pre.date # last.date) =>
    /\ last.resp.startEquity = ParseEquity(last.eqRaw)
    /\ ~last.resp.hitDailyMaxLoss
    /\ last.resp.consecutiveLosses = 0

\* C5 as amended: such a call returns startEquity = the supplied equity and
\* consecutiveLosses = 0 whatever the prior state, and hitDailyMaxLoss =
\* false unless equity * pct = 0: with equity 0 or pct 0 the day's P&L of 0
\* meets the threshold of 0 and the call returns hitDailyMaxLoss = true.
C5_NewDateResetsUnlessZeroThreshold ==
  (last.op = "getOrUpdate" /\ last.pre.date # last.date) =>
    LET eq == ParseEquity(last.eqRaw)
        pct == ParsePct(last.pctRaw)
    IN /\ last.resp.startEquity = eq
       /\ last.resp.consecutiveLosses = 0
       /\ last.resp.hitDailyMaxLoss
            <=> (eq.k = "num" /\ pct.k = "num" /\ eq.v * pct.v = 0)

\* a new date arrives while the flag is set and losses are counted
C5_Witness ==
  /\ last.op = "getOrUpdate"
  /\ last.pre.date \in Dates
  /\ last.pre.date # last.date
  /\ last.pre.hitDailyMaxLoss
  /\ last.pre.consecutiveLosses > 0
  /\ last.pre.startEquity = Num(9600)
  /\ last.eqRaw = RawNum(10000)
  /\ last.pctRaw = RawNum(3)
  /\ ~last.resp.hitDailyMaxLoss

----------------------------------------------------------------------------
(* C6 *)

\* C6 as stated: consecutiveLosses goes from a positive value to 0 only in a
\* call that carries a date other than the stored one or in a
\* registerTradeResult with pnl > 0, and a getOrUpdate for the stored date
\* never changes it.
C6_LossesResetOnlyOnNewDateOrWin ==
  /\ (/\ last.op # "none"
      /\ last.pre.consecutiveLosses > 0
      /\ last.resp.consecutiveLosses = 0)
       => \/ last.pre.date # last.date
          \/ last.op = "registerTradeResult"
               /\ JsPositive(ParsePnl(last.pnlRaw))
  /\ (last.op = "getOrUpdate" /\ last.pre.date = last.date)
       => last.resp.consecutiveLosses = last.pre.consecutiveLosses

\* C6 as amended: consecutiveLosses goes from a positive value to 0 only in
\* a call that carries a date other than the stored one, in a getOrUpdate
\* made while no startEquity is stored, or in a registerTradeResult with
\* pnl > 0; a getOrUpdate for the stored date with a startEquity stored
\* never changes it; a getOrUpdate with another date and a
\* registerTradeResult with pnl > 0 always leave it 0.
C6_LossesResetOnlyOnResetOrWin ==
  /\ (/\ last.op # "none"
      /\ last.pre.consecutiveLosses > 0
      /\ last.resp.consecutiveLosses = 0)
       => \/ last.pre.date # last.date
          \/ last.op = "getOrUpdate" /\ last.pre.startEquity = Null
          \/ last.op = "registerTradeResult"
               /\ JsPositive(ParsePnl(last.pnlRaw))
  /\ (/\ last.op = "getOrUpdate"
      /\ last.pre.date = last.date
      /\ last.pre.startEquity # Null)
       => last.resp.consecutiveLosses = last.pre.consecutiveLosses
  /\ (last.op = "getOrUpdate" /\ last.pre.date # last.date)
       => last.resp.consecutiveLosses = 0
  /\ (last.op = "registerTradeResult" /\ JsPositive(ParsePnl(last.pnlRaw)))
       => last.resp.consecutiveLosses = 0

\* losses registered for a date before its first getOrUpdate are dropped by
\* that getOrUpdate; a later getOrUpdate for the date keeps the count
C6_Witness ==
  /\ last.op = "getOrUpdate"
  /\ last.pre.date = last.date
  /\ last.pre.startEquity = Null
  /\ last.pre.consecutiveLosses = 2
  /\ last.resp.consecutiveLosses = 0

----------------------------------------------------------------------------
(* C7 *)

RECURSIVE TrailingLosses(_)
\* the number of negative pnls after the last positive one
TrailingLosses(pnls) ==
  IF pnls = <<>> THEN 0
  ELSE LET x == pnls[Len(pnls)]
           front == SubSeq(pnls, 1, Len(pnls) - 1)
       IN IF x.k = "num" /\ x.v > 0 THEN 0
          ELSE IF x.k = "num" /\ x.v < 0 THEN 1 + TrailingLosses(front)
          ELSE TrailingLosses(front)

\* C7: while only registerTradeResult calls with one date have been made,
\* each returns the number of negative pnls registered since the most recent
\* positive pnl (a pnl of 0 leaves the count as it is); the counter is never
\* negative.
C7_LossesCountTrailingLosses ==
  /\ (regRun.valid /\ regRun.pnls # <<>>) =>
       /\ last.op = "registerTradeResult"
       /\ last.resp.consecutiveLosses = TrailingLosses(regRun.pnls)
       /\ loadState(loaded, data, storage).consecutiveLosses
            = TrailingLosses(regRun.pnls)
  /\ loadState(loaded, data, storage).consecutiveLosses >= 0
  /\ last.resp.consecutiveLosses >= 0

\* pnls -5, -3, +2, -1 on one date: the fourth call returns 1
C7_Witness ==
  /\ regRun.valid
  /\ regRun.pnls = <<Num(-5), Num(-3), Num(2), Num(-1)>>
  /\ last.resp.consecutiveLosses = 1

----------------------------------------------------------------------------
(* runBotOnce, one run at a time, step by step at its awaits *)

Envs ==
  {[MASSIVE_API_KEY |-> k, DRY_RUN |-> d, filters |-> DefaultFilters] :
     k \in BOOLEAN, d \in DryRunValues}

InitRun ==
  /\ data = InitData
  /\ loaded = FALSE
  /\ storage = NoStore
  /\ InitHist
  /\ InitConcIdle
  /\ MASTER_WATCHLIST = <<>>
  /\ MASTER_WATCHLIST_DAY = NoDate
  /\ env \in Envs
  /\ today = "D1"
  /\ run = NoRun
  /\ built = NoRun.prevBuilt
  /\ InitFnIdle

\* MASTER_WATCHLIST_DAY === nyDayKey && MASTER_WATCHLIST.length > 0
CacheHit(nyDayKey) ==
  MASTER_WATCHLIST_DAY = nyDayKey /\ Len(MASTER_WATCHLIST) > 0

\* the run returns {ok, reason}
Returned(r, ok, reason) ==
  [r EXCEPT !.pc = "done", !.ok = ok, !.reason = reason]

\* a mutant of AfterWatchlist: the empty watchlist is reported with ok true
AfterWatchlist_EmptyOk(r, list) ==
  LET r1 == [r EXCEPT !.watchlist = list, !.wlReturned = TRUE]
  IN IF Len(list) = 0 THEN Returned(r1, TRUE, "empty-watchlist")
     ELSE [r1 EXCEPT !.pc = "account"]

\* runBotOnce after getOrBuildMasterWatchlist has returned list
AfterWatchlist(r, list) ==
  LET r1 == [r EXCEPT !.watchlist = list, !.wlReturned = TRUE]
  IN IF Len(list) = 0 THEN Returned(r1, FALSE, "empty-watchlist")
     ELSE [r1 EXCEPT !.pc = "account"]

\* The run starts: the time window, then getOrBuildMasterWatchlist up to its
\* snapshot fetch.
RunStart ==
  /\ run.pc \in {"idle", "done"}
  /\ \E force \in BOOLEAN, nyMinutes \in Minutes :
       LET cur == loadState(loaded, data, storage)
           r0 == [NoRun EXCEPT
                    !.pc = "window", !.force = force, !.minutes = nyMinutes,
                    !.day = today,
                    !.hitAtStart = cur.date = today /\ cur.hitDailyMaxLoss,
                    !.prevBuilt = built]
       IN IF ~force /\ TooEarly(nyMinutes)
            THEN /\ run' = Returned(r0, TRUE, "too-early")
                 /\ UNCHANGED <<cacheVars, built>>
          ELSE IF ~force /\ TooLate(nyMinutes)
            THEN /\ run' = Returned(r0, TRUE, "too-late")
                 /\ UNCHANGED <<cacheVars, built>>
          ELSE IF CacheHit(today)
            THEN /\ run' = AfterWatchlist(r0, MASTER_WATCHLIST)
                 /\ built' = [valid |-> TRUE, day |-> today,
                              list |-> MASTER_WATCHLIST]
                 /\ UNCHANGED cacheVars
          ELSE IF ~env.MASSIVE_API_KEY
            THEN /\ MASTER_WATCHLIST' = <<>>
                 /\ MASTER_WATCHLIST_DAY' = today
                 /\ run' = AfterWatchlist(r0, <<>>)
                 /\ built' = [valid |-> TRUE, day |-> today, list |-> <<>>]
          ELSE /\ run' = [r0 EXCEPT !.pc = "snapshot", !.snapshotFetches = 1]
               /\ UNCHANGED <<cacheVars, built>>
  /\ UNCHANGED <<doVars, histVars, concVars, fnVars, env, today>>

\* The snapshot fetch ends: the filters, the cache, and back in runBotOnce.
SnapshotDone ==
  /\ run.pc = "snapshot"
  /\ \E outcome \in FetchOutcomes :
       LET list == BuiltFrom(outcome, env.filters)
       IN /\ MASTER_WATCHLIST' = list
          /\ MASTER_WATCHLIST_DAY' = run.day
          /\ run' = AfterWatchlist(run, list)
          /\ built' = [valid |-> TRUE, day |-> run.day, list |-> list]
  /\ UNCHANGED <<doVars, histVars, concVars, fnVars, env, today>>

\* fetchAlpacaAccount ends
AccountDone ==
  /\ run.pc = "account"
  /\ \E account \in AccountOutcomes :
       LET r1 == [run EXCEPT !.accountFetches = @ + 1]
       IN run' = IF ~account.ok
                   THEN Returned(r1, FALSE, "account-fetch-failed")
                   ELSE [r1 EXCEPT !.equity = account.equity, !.pc = "risk"]
  /\ UNCHANGED <<doVars, histVars, concVars, fnVars, cacheVars, env, today,
               built>>

\* getRiskState: the Durable Object serves getOrUpdate, then the risk gate
RiskDone ==
  /\ run.pc = "risk"
  /\ LET q == RiskRequest(run.day, run.equity)
         riskState ==
           GetOrUpdate(loadState(loaded, data, storage), q.date, q.eqRaw,
                       q.pctRaw).resp
         r1 == [run EXCEPT !.riskCalls = @ + 1, !.riskState = riskState,
                           !.hasRisk = TRUE]
     IN /\ ServeGetOrUpdate(q.date, q.eqRaw, q.pctRaw, FALSE)
        /\ run' = IF RiskGate(riskState, run.force)
                    THEN Returned(r1, TRUE, "daily-max-loss-hit")
                    ELSE [r1 EXCEPT !.pc = "positions"]
  /\ UNCHANGED <<concVars, fnVars, cacheVars, env, today, built>>

\* fetchAlpacaPositions ends: positionsBySymbol is built
PositionsDone ==
  /\ run.pc = "positions"
  /\ \E held \in SUBSET Symbols :
       run' = [run EXCEPT !.positionsFetches = @ + 1, !.positions = held,
                          !.pc = "scan", !.idx = 1]
  /\ UNCHANGED <<doVars, histVars, concVars, fnVars, cacheVars, env, today,
               built>>

\* what the fetches of one symbol bring: no bars, too few bars, and bars
\* with a pullback that breaks out
ScanOutcomes ==
  {[fetched |-> NoBars, macd |-> MacdPositive],
   [fetched |-> Fetched(ShortBars), macd |-> MacdPositive],
   [fetched |-> Fetched(PullbackBreakoutBars), macd |-> MacdPositive]}

\* a mutant of Held: no symbol counts as held
Held_Never(positions, symbol) == FALSE

\* positionsBySymbol[symbol], for the symbols of the watchlist
Held(positions, symbol) == symbol \in positions

\* One round of the loop of scanAndTrade_H3, for symbols[idx]: the
\* one-bullet test, the bars, the loop body, the action and the order.
ScanSymbol(r, outcome, dryRun) ==
  LET symbol == r.watchlist[r.idx]
      r1 == [r EXCEPT !.scanned = @ + 1, !.idx = @ + 1]
  IN IF Held(r.positions, symbol) THEN [r1 EXCEPT !.lastTag = "held"]
     ELSE
       LET e == EvalSymbol(outcome.fetched, outcome.macd, Num(r.equity),
                           Num(RISK_PCT_DEFAULT))
           r2 == [r1 EXCEPT !.barFetches = Append(@, symbol),
                            !.lastTag = e.tag]
       IN IF e.tag # "entry" THEN r2
          ELSE LET r3 == [r2 EXCEPT
                            !.actions = Append(@, ActionOf(symbol, e))]
               IN IF dryRun THEN r3
                  ELSE [r3 EXCEPT
                          !.orders = Append(@, [symbol |-> symbol,
                                                qty |-> e.shares.v])]

ScanStep ==
  /\ run.pc = "scan"
  /\ run.idx <= Len(run.watchlist)
  /\ \E outcome \in ScanOutcomes :
       run' = ScanSymbol(run, outcome, DryRun(env.DRY_RUN))
  /\ UNCHANGED <<doVars, histVars, concVars, fnVars, cacheVars, env, today,
                 built>>

\* the keys of the object scanAndTrade_H3 returns
ScanResultKeys == {"scanned", "signals", "actions"}

\* scanAndTrade_H3 has returned: the run returns {ok: true, riskState,
\* ...scanResult}, and the spread brings neither an ok nor a reason
ScanDone ==
  /\ run.pc = "scan"
  /\ run.idx > Len(run.watchlist)
  /\ ScanResultKeys \cap {"ok", "reason"} = {}
  /\ run' = Returned(run, TRUE, "")
  /\ UNCHANGED <<doVars, histVars, concVars, fnVars, cacheVars, env, today,
               built>>

\* midnight in New York
DayRollover ==
  /\ today = "D1"
  /\ today' = "D2"
  /\ UNCHANGED <<doVars, histVars, concVars, fnVars, cacheVars, env, run,
               built>>

NextRun ==
  \/ RunStart
  \/ SnapshotDone
  \/ AccountDone
  \/ RiskDone
  \/ PositionsDone
  \/ ScanStep
  \/ ScanDone
  \/ DayRollover
  \/ Evict

SpecRun == InitRun /\ [][NextRun]_vars

----------------------------------------------------------------------------
(* C8 *)

InWindow(nyMinutes) ==
  nyMinutes >= ENTRY_WINDOW_START /\ nyMinutes <= ENTRY_WINDOW_END

\* no positions fetch, no bar fetch, no order, no symbol scanned so far
NothingScanned(r) ==
  /\ r.positionsFetches = 0
  /\ r.barFetches = <<>>
  /\ r.orders = <<>>
  /\ r.actions = <<>>
  /\ r.scanned = 0

\* C8 as stated: every non-forced run inside the entry window made while
\* hitDailyMaxLoss is true for the day returns {ok: true, reason:
\* "daily-max-loss-hit"} with the risk state, and scans nothing.
C8_GateAlwaysReported ==
  (/\ run.pc = "done" /\ ~run.force /\ InWindow(run.minutes)
   /\ run.hitAtStart) =>
    /\ run.ok /\ run.reason = "daily-max-loss-hit"
    /\ run.hasRisk
    /\ NothingScanned(run)

\* C8 as amended: such a run scans nothing, whatever it returns; when its
\* watchlist is not empty and its account fetch succeeds it returns
\* {ok: true, reason: "daily-max-loss-hit"} with the risk state the store
\* returned; otherwise it has returned empty-watchlist or
\* account-fetch-failed before the risk gate.
C8_GateReportedAfterWatchlistAndAccount ==
  (~run.force /\ InWindow(run.minutes) /\ run.hitAtStart) =>
    /\ NothingScanned(run)
    /\ run.pc \notin {"positions", "scan"}
    /\ run.pc = "done" =>
         \/ /\ run.ok /\ run.reason = "daily-max-loss-hit"
            /\ run.watchlist # <<>> /\ run.accountFetches = 1
            /\ run.hasRisk /\ run.riskState.hitDailyMaxLoss
            /\ run.riskState = last.resp
         \/ /\ ~run.ok /\ run.reason = "empty-watchlist"
            /\ run.watchlist = <<>> /\ run.accountFetches = 0
         \/ /\ ~run.ok /\ run.reason = "account-fetch-failed"
            /\ run.watchlist # <<>> /\ run.riskCalls = 0

\* the flag was set earlier in the day; equity is back at the baseline
C8_Witness ==
  /\ run.pc = "done" /\ ~run.force /\ InWindow(run.minutes)
  /\ run.hitAtStart
  /\ run.reason = "daily-max-loss-hit"
  /\ run.equity = 10000
  /\ run.riskState.startEquity = Num(10000)
  /\ run.riskState.currentDayPL = Num(0)

----------------------------------------------------------------------------
(* C9 *)

EarlyOrLate == {"too-early", "too-late"}

\* the result of a run by its minute and its force flag
WindowResult ==
  run.pc # "idle" =>
    /\ (~run.force /\ run.minutes < ENTRY_WINDOW_START) =>
         run.pc = "done" /\ run.ok /\ run.reason = "too-early"
    /\ (~run.force /\ run.minutes > ENTRY_WINDOW_END) =>
         run.pc = "done" /\ run.ok /\ run.reason = "too-late"
    /\ (run.minutes >= ENTRY_WINDOW_START /\ run.minutes <= ENTRY_WINDOW_END)
         => run.reason \notin EarlyOrLate
    /\ run.force => run.reason \notin EarlyOrLate
    /\ run.reason \in EarlyOrLate =>
         /\ run.snapshotFetches = 0 /\ run.accountFetches = 0
         /\ run.riskCalls = 0 /\ NothingScanned(run)

\* C9: a non-forced run before 09:24 or after 11:00 returns too-early or
\* too-late, fetches nothing, and leaves the risk state and the watchlist
\* cache as they were; 09:24 and 11:00 are inside the window; a forced run
\* returns neither reason.
C9_OutsideWindowTouchesNothing ==
  /\ []WindowResult
  /\ [][(run' # run /\ run'.reason \in EarlyOrLate)
          => UNCHANGED <<data, loaded, storage, last, MASTER_WATCHLIST,
                         MASTER_WATCHLIST_DAY>>]_vars

\* a run after 11:00 on a day with a watchlist cached and a risk state stored
C9_Witness ==
  /\ run.pc = "done" /\ run.reason = "too-late"
  /\ run.minutes = ENTRY_WINDOW_END + 1
  /\ MASTER_WATCHLIST_DAY = run.day /\ MASTER_WATCHLIST # <<>>
  /\ storage.present /\ storage.val.date = run.day

----------------------------------------------------------------------------
(* C10 *)

\* C10: when the last getOrBuildMasterWatchlist call that returned was for
\* the day of this run, even with an empty list, this run's call fetches no
\* snapshot and returns the same list.
C10_BuiltOncePerDay ==
  (/\ run.pc # "idle"
   /\ run.prevBuilt.valid
   /\ run.prevBuilt.day = run.day) =>
    /\ run.snapshotFetches = 0
    /\ run.wlReturned => run.watchlist = run.prevBuilt.list

----------------------------------------------------------------------------
(* C12 *)

\* the symbols of a sequence of actions or orders
SymbolsOf(q) == {q[i].symbol : i \in DOMAIN q}

\* C12: in every run, no action is recorded, no order is submitted and no
\* bars are fetched for a symbol that has a position in the snapshot the run
\* took at its start.
C12_OneBullet ==
  /\ SymbolsOf(run.actions) \cap run.positions = {}
  /\ SymbolsOf(run.orders) \cap run.positions = {}
  /\ \A i \in DOMAIN run.barFetches : run.barFetches[i] \notin run.positions

\* a live run over two symbols, the first of them held: only the second is
\* fetched, sized and ordered
C12_Witness ==
  /\ run.pc = "done" /\ run.scanned = 2
  /\ run.positions = {run.watchlist[1]}
  /\ run.barFetches = <<run.watchlist[2]>>
  /\ SymbolsOf(run.actions) = {run.watchlist[2]}
  /\ SymbolsOf(run.orders) = {run.watchlist[2]}

----------------------------------------------------------------------------
(* C13 *)

\* "true" in every letter case
TrueInAnyCase ==
  {<<t, r, u, e>> : t \in {"t", "T"}, r \in {"r", "R"}, u \in {"u", "U"},
                    e \in {"e", "E"}}

\* dry-run mode as the claim words it: DRY_RUN unset, or "true" in any
\* letter case
DryRunEnabled == ~env.DRY_RUN.set \/ env.DRY_RUN.str \in TrueInAnyCase

\* C13: with dry-run enabled no run, forced or not, submits an order, while
\* every sized entry is recorded as an action; with dry-run disabled the
\* orders are the recorded actions one for one, each with the symbol and the
\* shares of its action.
C13_DryRunSubmitsNothing ==
  /\ DryRunEnabled => run.orders = <<>>
  /\ run.lastTag = "entry" =>
       /\ run.actions # <<>>
       /\ run.actions[Len(run.actions)].symbol = run.watchlist[run.idx - 1]
  /\ ~DryRunEnabled =>
       run.orders = [i \in DOMAIN run.actions |->
                       [symbol |-> run.actions[i].symbol,
                        qty |-> run.actions[i].shares]]

\* a forced run with DRY_RUN = "TrUe" that sized two entries
C13_Witness ==
  /\ run.pc = "done" /\ run.force
  /\ env.DRY_RUN = EnvStr(<<"T", "r", "U", "e">>)
  /\ Len(run.actions) = 2
  /\ run.actions[1].shares >= 1
  /\ run.orders = <<>>

----------------------------------------------------------------------------
(* C14 *)

NotOkReasons == {"account-fetch-failed", "empty-watchlist"}

\* the reason of a returned run; "" is the completed scan, which has none
RunReasons ==
  NotOkReasons \cup {"too-early", "too-late", "daily-max-loss-hit", ""}

\* a returned run has ok = false exactly with one of the two fatal reasons
OkUnlessFatal ==
  run.pc = "done" =>
    /\ run.reason \in RunReasons
    /\ ~run.ok <=> run.reason \in NotOkReasons

\* C14: a run returns ok = false if and only if its reason is
\* account-fetch-failed or empty-watchlist; and a round of the scan loop
\* whose bar fetch failed or brought fewer than 30 bars records nothing for
\* that symbol and leaves the loop at the next symbol.
C14_OnlyTwoFatalReasons ==
  /\ []OkUnlessFatal
  /\ [][(/\ run.pc = "scan"
         /\ run'.idx # run.idx
         /\ run'.lastTag \in {"no-bars", "few-bars"})
          => /\ run'.pc = "scan"
             /\ run'.idx = run.idx + 1
             /\ run'.actions = run.actions
             /\ run'.orders = run.orders]_vars

\* a run that has completed its scan: the first symbol had no usable bars,
\* the second was fetched and sized after it
C14_Witness ==
  /\ run.pc = "done" /\ run.ok /\ run.reason = ""
  /\ Len(run.barFetches) = 2
  /\ SymbolsOf(run.actions) = {run.watchlist[2]}
  /\ run.lastTag = "entry"

----------------------------------------------------------------------------
(* C15 *)

\* the request values that hold no number: a string that is no number, and
\* null
Unparsable == {RawJunk, RawNull}

\* a finite number or null
FiniteOrNull(x) == x.k \in {"num", "null"}

\* C15: a getOrUpdate whose equity cannot be parsed leaves the state and the
\* response that the same call with equity 0 leaves, a registerTradeResult
\* whose pnl cannot be parsed leaves the state that the same call with pnl 0
\* leaves, and the startEquity in memory and in storage is always a finite
\* number or null.
C15_UnparsableAsZero ==
  LET cur == loadState(loaded, data, storage)
  IN /\ (last.op = "getOrUpdate" /\ last.eqRaw \in Unparsable) =>
          LET zero == GetOrUpdate(last.pre, last.date, RawNum(0),
                                  last.pctRaw)
          IN last.resp = zero.resp /\ cur = zero.data
     /\ (last.op = "registerTradeResult" /\ last.pnlRaw \in Unparsable) =>
          LET zero == RegisterTradeResult(last.pre, last.date, RawNum(0))
          IN last.resp = zero.resp /\ cur = zero.data
     /\ FiniteOrNull(cur.startEquity)

----------------------------------------------------------------------------
(* The Durable Object when storage.put can fail.  saveState awaits the put
   and catches nothing, so the handler ends with the exception; this.data
   was assigned before the put was called. *)

FailedOps == {"getOrUpdate-failed", "registerTradeResult-failed"}

\* the history after a call that ended in saveState; pre is this.data as
\* loadState left it
FailedCall(op, date, pre) ==
  [NoCall EXCEPT !.op = op, !.date = date, !.pre = pre]

\* handleGetOrUpdate with a put that fails
GetOrUpdatePutFails ==
  \E date \in Dates, eqRaw \in ConcEquities, pctRaw \in ConcPcts :
    LET pre == loadState(loaded, data, storage)
        r == GetOrUpdate(pre, date, eqRaw, pctRaw)
    IN /\ data' = r.data
       /\ loaded' = TRUE
       /\ storage' = storage
       /\ last' = FailedCall("getOrUpdate-failed", date, pre)
       /\ regRun' = [valid |-> FALSE, date |-> NoDate, pnls |-> <<>>]
       /\ UNCHANGED <<stretch, seen, concVars, runVars, fnVars>>

\* handleRegisterTradeResult with a put that fails
RegisterPutFails ==
  \E date \in Dates, pnlRaw \in ConcPnls :
    LET pre == loadState(loaded, data, storage)
        r == RegisterTradeResult(pre, date, pnlRaw)
    IN /\ r.data.consecutiveLosses <= MaxLosses
       /\ data' = r.data
       /\ loaded' = TRUE
       /\ storage' = storage
       /\ last' = FailedCall("registerTradeResult-failed", date, pre)
       /\ regRun' = [valid |-> FALSE, date |-> NoDate, pnls |-> <<>>]
       /\ UNCHANGED <<stretch, seen, concVars, runVars, fnVars>>

PutOkGetOrUpdate == GetOrUpdateCall(ConcEquities, ConcPcts, FALSE)
PutOkRegisterTradeResult == RegisterCall(ConcPnls)

NextFail ==
  \/ PutOkGetOrUpdate
  \/ PutOkRegisterTradeResult
  \/ GetOrUpdatePutFails
  \/ RegisterPutFails
  \/ Evict

SpecFail == Init /\ [][NextFail]_vars

----------------------------------------------------------------------------
(* C16 *)

\* C16: after a call whose persist step failed, the state the next call
\* works on is the state before the failed call, and between calls the
\* state in memory is the state last persisted (the constructor's state
\* when nothing was persisted yet).
C16_AllOrNothing ==
  /\ last.op \in FailedOps => loadState(loaded, data, storage) = last.pre
  /\ loaded => data = loadState(FALSE, InitData, storage)

----------------------------------------------------------------------------
(* The filter loop of getOrBuildMasterWatchlist, for every snapshot and
   every setting of the thresholds *)

\* the values of env.MAX_SCREEN and env.PRICE_MAX tried; with PRICE_MAX at
\* 400 the ticker CCC passes too
ScreenCaps == {0, 1, 2, MAX_SCREEN}
ScreenPriceMaxes == {PRICE_MAX, 400}

FilterConfigs ==
  {[DefaultFilters EXCEPT !.MAX_SCREEN = n, !.PRICE_MAX = p] :
     n \in ScreenCaps, p \in ScreenPriceMaxes}

\* data.tickers of the snapshot
ScreenSnapshots == SeqsUpTo(TickerUniverse, MaxTickers + 1)

InitScreen ==
  /\ data = InitData
  /\ loaded = FALSE
  /\ storage = NoStore
  /\ InitHist
  /\ InitConcIdle
  /\ InitRunIdle
  /\ \E tickers \in ScreenSnapshots, cfg \in FilterConfigs :
       screened = [NoScreen EXCEPT !.pc = "fetched", !.tickers = tickers,
                                   !.cfg = cfg]
  /\ signal = NoSignal

\* the loop over the tickers, to its end or its break
Screen ==
  /\ screened.pc = "fetched"
  /\ screened' =
       [screened EXCEPT
          !.pc = "built",
          !.passed = ScreenFrom(screened.tickers, 1, <<>>, screened.cfg)]
  /\ UNCHANGED <<doVars, histVars, concVars, runVars, signal>>

NextScreen == Screen

SpecScreen == InitScreen /\ [][NextScreen]_vars

----------------------------------------------------------------------------
(* C11 *)

\* the symbols of the tickers that pass the four filters, in snapshot order
PassingSymbols(tickers, cfg) ==
  LET passing == SelectSeq(tickers, LAMBDA t : PassesFilters(t, cfg))
  IN [i \in 1..Len(passing) |-> passing[i].ticker]

\* the first n elements of q, all of q when it is shorter
FirstN(q, n) == SubSeq(q, 1, IF Len(q) < n THEN Len(q) ELSE n)

\* C11: for every snapshot and every filter configuration, MAX_SCREEN = 0
\* included, the built watchlist is the first MAX_SCREEN passing tickers in
\* snapshot order, so it never has more than MAX_SCREEN symbols.
C11_FirstMaxScreenPassing ==
  screened.pc = "built" =>
    /\ screened.passed =
         FirstN(PassingSymbols(screened.tickers, screened.cfg),
                screened.cfg.MAX_SCREEN)
    /\ Len(screened.passed) <= screened.cfg.MAX_SCREEN

----------------------------------------------------------------------------
(* The loop body of scanAndTrade_H3, for every bar sequence, MACD result,
   equity and risk percent the model draws *)

\* n bars, the bar with the high of 13 dollars nowhere, first, or at index
\* MIN_BARS - 3, and every shape for each of the last three bars
SignalBars ==
  {Lead(n - 3, k) \o <<prevBar, lastBar, currentBar>> :
     n \in MIN_BARS..MaxBars, k \in {0, 1, MIN_BARS - 3},
     prevBar \in TailBars, lastBar \in TailBars, currentBar \in TailBars}

SignalFetches ==
  {NoBars, Fetched(ShortBars)} \cup {Fetched(b) : b \in SignalBars}

\* account.equity after parseFloat, in dollars, and RISK_PCT_PER_TRADE after
\* parseFloat, in hundredths
SignalEquities == {Num(10000), Num(1), Num(0), NaN}
SignalRiskPcts == {Num(RISK_PCT_DEFAULT), NaN}

InitSignal ==
  /\ data = InitData
  /\ loaded = FALSE
  /\ storage = NoStore
  /\ InitHist
  /\ InitConcIdle
  /\ InitRunIdle
  /\ screened = NoScreen
  /\ \E fetched \in SignalFetches, macd \in MacdOutcomes,
        equity \in SignalEquities, riskPct \in SignalRiskPcts :
       signal = [NoSignal EXCEPT !.pc = "fetched", !.fetched = fetched,
                                 !.macd = macd, !.equity = equity,
                                 !.riskPct = riskPct]

\* the loop body runs for the symbol
Evaluate ==
  /\ signal.pc = "fetched"
  /\ signal' =
       [signal EXCEPT
          !.pc = "done",
          !.found = EvalSymbol(signal.fetched, signal.macd, signal.equity,
                               signal.riskPct)]
  /\ UNCHANGED <<doVars, histVars, concVars, runVars, screened>>

NextSignal == Evaluate

SpecSignal == InitSignal /\ [][NextSignal]_vars

\* the bars of the symbol and its last three bars
SigBars == signal.fetched.bars
SigCurrent == SigBars[Len(SigBars)]
SigLast == SigBars[Len(SigBars) - 1]
SigPrev == SigBars[Len(SigBars) - 2]

\* the loop body got as far as the choice of the pattern
PatternChosen ==
  /\ signal.pc = "done"
  /\ signal.found.tag \in {"no-setup", "no-breakout", "no-size", "entry"}

\* the highest high of the last 30 bars
PointB ==
  LET window == {i \in DOMAIN SigBars : i > Len(SigBars) - LOOKBACK}
  IN CHOOSE h \in {SigBars[i].h : i \in window} :
       \A i \in window : SigBars[i].h <= h

----------------------------------------------------------------------------
(* C17 *)

\* C17: for every sequence of at least 30 bars the pattern is none, PULLBACK
\* or ABCD; it is PULLBACK with triggerPrice = last.high whenever prev is
\* green and last is red, even when the ABCD setup fires too; it is ABCD
\* only when the pullback does not fire, with triggerPrice = pointB; and a
\* red bar followed by a green bar never gives PULLBACK.
C17_PullbackBeforeAbcd ==
  PatternChosen =>
    LET prevGreen == SigPrev.c > SigPrev.o
        lastRed == SigLast.c < SigLast.o
        prevRed == SigPrev.c < SigPrev.o
        lastGreen == SigLast.c > SigLast.o
        found == signal.found
    IN /\ found.pattern \in {"none", "PULLBACK", "ABCD"}
       /\ (prevGreen /\ lastRed) =>
            found.pattern = "PULLBACK" /\ found.triggerPrice = SigLast.h
       /\ found.pattern = "ABCD" =>
            /\ ~(prevGreen /\ lastRed)
            /\ found.isABCDSetup
            /\ found.triggerPrice = PointB
       /\ (prevRed /\ lastGreen) => found.pattern # "PULLBACK"

\* both setups fire and PULLBACK is taken, its trigger below point B
C17_Witness ==
  /\ PatternChosen
  /\ signal.found.isPullback /\ signal.found.isABCDSetup
  /\ signal.found.pattern = "PULLBACK"
  /\ signal.found.triggerPrice = SigLast.h
  /\ signal.found.triggerPrice < PointB

----------------------------------------------------------------------------
(* C18 *)

\* C18: a registerTradeResult call leaves startEquity, hitDailyMaxLoss and
\* dailyMaxLossPct as they were, whatever the prior state, the date and the
\* pnl; with a date other than the stored one it sets the date and counts
\* the losses from 0.
C18_RegisterKeepsBaseline ==
  last.op = "registerTradeResult" =>
    LET cur == loadState(loaded, data, storage)
        pnl == ParsePnl(last.pnlRaw)
    IN /\ cur.startEquity = last.pre.startEquity
       /\ cur.hitDailyMaxLoss = last.pre.hitDailyMaxLoss
       /\ cur.dailyMaxLossPct = last.pre.dailyMaxLossPct
       /\ cur.date = last.date
       /\ last.pre.date # last.date =>
            cur.consecutiveLosses = IF JsNegative(pnl) THEN 1 ELSE 0

\* a trade result with a new date, on a day whose max-loss flag is set
C18_Witness ==
  /\ last.op = "registerTradeResult"
  /\ last.pre.date = "D1" /\ last.date = "D2"
  /\ last.pre.hitDailyMaxLoss /\ last.pre.startEquity = Num(10000)
  /\ last.pre.consecutiveLosses = 2
  /\ data.date = "D2" /\ data.hitDailyMaxLoss
  /\ data.startEquity = Num(10000) /\ data.consecutiveLosses = 1

----------------------------------------------------------------------------
(* C19 *)

\* the stop the size is measured from: last.low for PULLBACK, point C for
\* ABCD
StopReference ==
  IF signal.found.pattern = "PULLBACK" THEN SigLast.l
  ELSE AbcdCheck(SigBars).pointCPrice

\* C19: every entry has priceNow >= triggerPrice > 0 and current.volume >
\* last.volume; its riskPerShare is triggerPrice - stopReference when that
\* is positive and 1% of priceNow otherwise, and is positive; its shares is
\* a whole number >= 1, the floor of riskDollars / riskPerShare, so shares *
\* riskPerShare <= riskDollars = equity * riskPct; and a symbol whose shares
\* comes out at 0 or below, or at no number, has no entry.
C19_EntrySized ==
  signal.pc = "done" =>
    LET found == signal.found
        distance == JsSub(Num(found.triggerPrice), StopReference)
    IN /\ found.tag = "entry" =>
            /\ found.priceNow = SigCurrent.c
            /\ found.priceNow >= found.triggerPrice
            /\ found.triggerPrice > 0
            /\ SigCurrent.v > SigLast.v
            /\ found.riskPerShare =
                 IF JsPositive(distance) THEN distance
                 ELSE Num(found.priceNow \div 100)
            /\ JsPositive(found.riskPerShare)
            /\ found.riskDollars = JsMul(signal.equity, signal.riskPct)
            /\ found.riskDollars.k = "num"
            /\ found.shares.k = "num" /\ found.shares.v >= 1
            /\ found.shares.v * found.riskPerShare.v <= found.riskDollars.v
            /\ found.riskDollars.v
                 < (found.shares.v + 1) * found.riskPerShare.v
       /\ found.tag = "no-size" =>
            found.shares.k # "num" \/ found.shares.v <= 0
       /\ (PatternChosen /\ found.tag \notin {"no-setup", "no-breakout"}
           /\ ~(found.shares.k = "num" /\ found.shares.v >= 1))
            => found.tag = "no-size"

\* a pullback over a red bar that has no low: 1% of the price is the risk
\* per share, and 100 dollars of risk buy 833 shares at 12 cents
C19_Witness ==
  /\ signal.pc = "done" /\ signal.found.tag = "entry"
  /\ SigLast.l = Undefined
  /\ signal.found.riskDollars = Num(10000)
  /\ signal.found.riskPerShare = Num(12)
  /\ signal.found.shares = Num(833)

----------------------------------------------------------------------------
(* C20 *)

\* C20: no entry has the pattern ABCD: a symbol whose pattern is ABCD has a
\* close below point B, its trigger, and ends at the breakout test.
C20_NoAbcdEntry ==
  signal.pc = "done" =>
    /\ signal.found.tag = "entry" => signal.found.pattern = "PULLBACK"
    /\ signal.found.pattern = "ABCD" =>
         /\ SigCurrent.c < signal.found.triggerPrice
         /\ signal.found.tag = "no-breakout"

\* an ABCD setup on rising volume, stopped by the price alone
C20_Witness ==
  /\ signal.pc = "done"
  /\ signal.found.pattern = "ABCD"
  /\ signal.found.isABCDSetup /\ ~signal.found.isPullback
  /\ SigCurrent.v > SigLast.v
  /\ signal.found.tag = "no-breakout"

====
